---- MODULE Spec2Model ----
(***************************************************************************)
(* Model of package gobcrypt (fawwazid/go-bcrypt): Generate, Compare, Cost *)
(* and NeedsRehash over golang.org/x/crypto/bcrypt, with SHA-256           *)
(* pre-hashing of credentials longer than PasswordLimit.                   *)
(*                                                                         *)
(* Byte slices are sequences of integers 0..255; a nil slice is <<>>.      *)
(* A hash blob is the 60-byte text "$2a$" cost "$" salt digest.            *)
(*                                                                         *)
(* The two cryptographic functions of the dependencies are replaced by     *)
(* checksums of the same shape: Sum256 (crypto/sha256) returns 32 bytes,   *)
(* bcryptDigest (the Blowfish loop of x/crypto/bcrypt) returns 31          *)
(* characters of bcrypt's base64 alphabet. Both are deterministic and      *)
(* read every byte they are given; everything around them (length tests,   *)
(* key expansion, blob layout, parsing, error wrapping) is modelled as the *)
(* code does it.                                                           *)
(***************************************************************************)
EXTENDS Integers, Sequences, FiniteSets, TLC

\* ------------------------------------------------------------ constants

DefaultCost == 14

MinCost == 12

MaxCost == 31

PasswordLimit == 72

\* sha256.Size: the length of a SHA-256 digest.
Size == 32

\* ------------------------------------------------------------ bounds

\* Longest credential below the limit that is enumerated byte by byte.
MaxShort == 1

\* Most bytes a credential carries beyond PasswordLimit.
MaxOver == 1

\* Number of distinct salts the random source can deliver.
NSalts == 2

\* Costs are tried from MinCost - CostMargin to MaxCost + CostMargin.
CostMargin == 1

\* Number of goroutines calling the package concurrently.
NProcs == 2

\* ------------------------------------------------------------ bytes

\* The bytes credentials are built from: 'a' and 'b'.
Alphabet == {97, 98}

Repeat(b, n) == [i \in 1..n |-> b]

SeqsOfLen(S, lo, hi) == UNION {[1..k -> S] : k \in lo..hi}

\* A checksum over a byte sequence: the sum, modulo a prime, of every byte
\* weighted by its position, and of the length. It is summed four bytes at
\* a time over halves of the sequence; all values stay below 2^31.
Term(s, i, hi) == IF i <= hi THEN (s[i] + 1) * (i * i + 1) ELSE 0

RECURSIVE MixRange(_, _, _)
MixHalves(s, lo, mid, hi) == MixRange(s, lo, mid) + MixRange(s, mid + 1, hi)

MixRange(s, lo, hi) ==
  IF hi - lo < 4
    THEN Term(s, lo, hi) + Term(s, lo + 1, hi) + Term(s, lo + 2, hi)
           + Term(s, lo + 3, hi)
  ELSE MixHalves(s, lo, (lo + hi) \div 2, hi)

Mix(s, seed) == (MixRange(s, 1, Len(s)) + 1009 * (Len(s) + seed)) % 1000003

\* Digit k (from 0) of h in the given base.
Digit(h, base, k) ==
  IF k = 0 THEN h % base
  ELSE IF k = 1 THEN (h \div base) % base
  ELSE IF k = 2 THEN (h \div (base * base)) % base
  ELSE (h \div (base * base * base)) % base

\* ------------------------------------------------------------ prehash

\* The Size bytes written for checksum h; the first three determine h.
DigestBytes(h) ==
  [i \in 1..Size |-> (Digit(h, 256, (i - 1) % 3) + 17 * (i - 1)) % 256]

\* crypto/sha256.Sum256: a fixed-size digest of the whole input.
Sum256(data) == DigestBytes(Mix(data, 7))

\* encoding/base64: the standard alphabet,
\* "ABCDEFGHIJKLMNOPQRSTUVWXYZabcdefghijklmnopqrstuvwxyz0123456789+/",
\* as the byte at index k (from 0), and the padding byte '='.
Std64(k) ==
  IF k < 26 THEN 65 + k
  ELSE IF k < 52 THEN 97 + (k - 26)
  ELSE IF k < 62 THEN 48 + (k - 52)
  ELSE IF k = 62 THEN 43
  ELSE 47

StdPadding == 61

\* Byte i of src, or 0 beyond its end.
ByteOrZero(src, i) == IF i <= Len(src) THEN src[i] ELSE 0

\* The six bits at position pos (0..3) of the three bytes b0, b1, b2.
SextetOf(b0, b1, b2, pos) ==
  IF pos = 0 THEN b0 \div 4
  ELSE IF pos = 1 THEN (b0 % 4) * 16 + (b1 \div 16)
  ELSE IF pos = 2 THEN (b1 % 16) * 4 + (b2 \div 64)
  ELSE b2 % 64

\* Sextet j (from 0) of src read as a bit string, zeroes after its end.
Sextet(src, j) ==
  SextetOf(ByteOrZero(src, 3 * (j \div 4) + 1), ByteOrZero(src, 3 * (j \div 4) + 2),
           ByteOrZero(src, 3 * (j \div 4) + 3), j % 4)

\* base64.RawStdEncoding.EncodedLen(n)
RawEncodedLen(n) == (n * 8 + 5) \div 6

\* base64.StdEncoding.EncodedLen(n)
StdEncodedLenOf(n) == ((n + 2) \div 3) * 4

\* What base64.RawStdEncoding.Encode writes for src.
RawStdEncode(src) == [j \in 1..RawEncodedLen(Len(src)) |-> Std64(Sextet(src, j - 1))]

\* What base64.StdEncoding.Encode writes for src: the same, padded.
StdEncode(src) ==
  [j \in 1..StdEncodedLenOf(Len(src)) |->
     IF j <= RawEncodedLen(Len(src)) THEN Std64(Sextet(src, j - 1)) ELSE StdPadding]

\* make([]byte, n) after Encode wrote enc at its start.
Encoded(n, enc) == [i \in 1..n |-> ByteOrZero(enc, i)]

stdEncodedLen == 44

rawStdEncodedLen == 43

\* PreHashPassword with the unpadded encoding written into its buffer.
PreHashPasswordUnpadded(password) ==
  Encoded(stdEncodedLen, RawStdEncode(Sum256(password)))

\* func PreHashPassword(password []byte) []byte
PreHashPassword(password) == Encoded(stdEncodedLen, StdEncode(Sum256(password)))

\* func PreHashPasswordLegacy(password []byte) []byte
PreHashPasswordLegacy(password) ==
  Encoded(rawStdEncodedLen, RawStdEncode(Sum256(password)))

\* Prehash returning the digest as base64 text, as PreHashPassword does.
PrehashEncoded(password) == PreHashPassword(password)

\* Prehash as it would be without the digest: the bytes the primitive reads.
PrehashTruncating(password) == SubSeq(password, 1, PasswordLimit)

\* func Prehash(password []byte) []byte
Prehash(password) == Sum256(password)

\* func needsPrehash(password []byte) bool
needsPrehash(password) == Len(password) > PasswordLimit

\* ------------------------------------------------------------ errors

\* An error value: the sentinel errors.Is matches, the text of the error
\* wrapped with %v behind it ("" when there is none) and the number
\* formatted with %d (-1 when there is none). Error() is a function of
\* the three, so two errors print the same text iff the records are equal.
NoError == [is |-> "nil", cause |-> "", num |-> -1]

Sentinel(name) == [is |-> name, cause |-> "", num |-> -1]

\* fmt.Errorf("%w: %v", sentinel, err)
WrapErr(name, err) == [is |-> name, cause |-> err, num |-> -1]

\* fmt.Errorf("%w: got %d", sentinel, n)
WrapNum(name, n) == [is |-> name, cause |-> "", num |-> n]

\* ------------------------------------------------------------ x/crypto/bcrypt

\* bcrypt's base64 alphabet,
\* "./ABCDEFGHIJKLMNOPQRSTUVWXYZabcdefghijklmnopqrstuvwxyz0123456789",
\* as the byte at index k (from 0).
Alpha64(k) ==
  IF k = 0 THEN 46
  ELSE IF k = 1 THEN 47
  ELSE IF k < 28 THEN 65 + (k - 2)
  ELSE IF k < 54 THEN 97 + (k - 28)
  ELSE 48 + (k - 54)

\* The 22 characters base64Encode makes of the 16 salt bytes the random
\* source delivered; n names the delivery.
encodedSalt(n) == [i \in 1..22 |-> Alpha64((11 * n + 5 * i) % 64)]

\* blowfish.ExpandKey: the key is read cyclically to fill the 18 words (72
\* bytes) of the P-array.
cycleKey(ckey) == [i \in 1..72 |-> ckey[((i - 1) % Len(ckey)) + 1]]

\* expensiveBlowfishSetup: the key is the password with a trailing zero
\* byte. Bytes of the password beyond the 72nd are never read.
expandKey(password) == cycleKey(Append(password, 0))

\* The 31 characters base64Encode makes of the 23 bytes the Blowfish loop
\* left, for checksum h; the first four determine h.
DigestChars(h) ==
  [i \in 1..31 |-> Alpha64((Digit(h, 64, (i - 1) % 4) + 7 * (i - 1)) % 64)]

\* bcrypt(password, cost, salt)
bcryptDigest(password, cost, salt) ==
  DigestChars(Mix(expandKey(password) \o salt \o <<cost>>, 5))

\* fmt.Sprintf("%02d", cost), for 0 <= cost <= 99
formatCost(cost) == <<48 + (cost \div 10), 48 + (cost % 10)>>

IsDigit(b) == b >= 48 /\ b <= 57

\* strconv.Atoi on the two bytes of the cost field: two digits, or a sign
\* and a digit; anything else is a syntax error.
atoi2(b1, b2) ==
  IF IsDigit(b1) /\ IsDigit(b2)
    THEN [ok |-> TRUE, n |-> 10 * (b1 - 48) + (b2 - 48)]
  ELSE IF b1 = 43 /\ IsDigit(b2) THEN [ok |-> TRUE, n |-> b2 - 48]
  ELSE IF b1 = 45 /\ IsDigit(b2) THEN [ok |-> TRUE, n |-> 0 - (b2 - 48)]
  ELSE [ok |-> FALSE, n |-> 0]

\* checkCost of the primitive: its own range is 4..31.
checkCost(cost) == IF cost < 4 \/ cost > 31 THEN "InvalidCostError" ELSE "nil"

NoHashed == [major |-> 0, minor |-> 0, cost |-> 0, salt |-> <<>>, hash |-> <<>>]

\* decodeCost and the rest of newFromHash: the cost field starts after the
\* n bytes of the version, the salt follows it, and every byte after the
\* salt is the digest.
decodeRest(hashedSecret, n, minor, c) ==
  IF ~c.ok THEN [err |-> "strconv.ErrSyntax", p |-> NoHashed]
  ELSE IF checkCost(c.n) # "nil" THEN [err |-> checkCost(c.n), p |-> NoHashed]
  ELSE [err |-> "nil",
        p |-> [major |-> hashedSecret[2], minor |-> minor, cost |-> c.n,
               salt |-> SubSeq(hashedSecret, n + 4, n + 25),
               hash |-> SubSeq(hashedSecret, n + 26, Len(hashedSecret))]]

\* decodeVersion: "$2$", or "$2", one minor byte and "$".
decodeVersion(hashedSecret) ==
  IF hashedSecret[3] # 36
    THEN decodeRest(hashedSecret, 4, hashedSecret[3],
                    atoi2(hashedSecret[5], hashedSecret[6]))
  ELSE decodeRest(hashedSecret, 3, 0, atoi2(hashedSecret[4], hashedSecret[5]))

\* newFromHash: the parse of a blob into version, cost, salt and digest.
newFromHash(hashedSecret) ==
  IF Len(hashedSecret) < 59 THEN [err |-> "ErrHashTooShort", p |-> NoHashed]
  ELSE IF hashedSecret[1] # 36
    THEN [err |-> "InvalidHashPrefixError", p |-> NoHashed]
  ELSE IF hashedSecret[2] > 50
    THEN [err |-> "HashVersionTooNewError", p |-> NoHashed]
  ELSE decodeVersion(hashedSecret)

\* (*hashed).Hash: the blob of a parsed hash, written into a 60-byte array
\* that starts zeroed: a digest shorter than 31 bytes is followed by
\* zeroes, a longer one is cut.
hashedHash(p) ==
  <<36, p.major>> \o (IF p.minor # 0 THEN <<p.minor>> ELSE <<>>) \o <<36>>
    \o formatCost(p.cost) \o <<36>> \o p.salt
    \o [i \in 1..31 |-> IF i <= Len(p.hash) THEN p.hash[i] ELSE 0]

\* newFromPassword, once the random source has delivered the salt: major
\* version '2', minor version 'a'.
newFromPassword(password, cost, salt) ==
  [major |-> 50, minor |-> 97, cost |-> cost, salt |-> salt,
   hash |-> bcryptDigest(password, cost, salt)]

\* bcrypt.GenerateFromPassword(password, cost) with the random source
\* delivering salt rnd, or failing when rnd = 0. A cost below the
\* primitive's own minimum is replaced by its default, 10.
bcryptGenerateWithCost(password, cost, rnd) ==
  IF checkCost(cost) # "nil" THEN [hash |-> <<>>, err |-> checkCost(cost), drawn |-> 0]
  ELSE IF rnd = 0 THEN [hash |-> <<>>, err |-> "rand.Reader", drawn |-> 1]
  ELSE [hash |-> hashedHash(newFromPassword(password, cost, encodedSalt(rnd))),
        err |-> "nil", drawn |-> 1]

bcryptGenerateFromPassword(password, cost, rnd) ==
  IF Len(password) > 72 THEN [hash |-> <<>>, err |-> "ErrPasswordTooLong", drawn |-> 0]
  ELSE bcryptGenerateWithCost(password, IF cost < 4 THEN 10 ELSE cost, rnd)

\* The comparison of CompareHashAndPassword, given the parse of the blob.
compareParsed(r, password) ==
  IF r.err # "nil" THEN r.err
  ELSE IF hashedHash(r.p)
            = hashedHash([r.p EXCEPT !.hash = bcryptDigest(password, r.p.cost, r.p.salt)])
    THEN "nil"
  ELSE "ErrMismatchedHashAndPassword"

\* bcrypt.CompareHashAndPassword(hashedPassword, password)
bcryptCompareHashAndPassword(hashedPassword, password) ==
  compareParsed(newFromHash(hashedPassword), password)

costParsed(r) ==
  IF r.err # "nil" THEN [cost |-> 0, err |-> r.err]
  ELSE [cost |-> r.p.cost, err |-> "nil"]

\* bcrypt.Cost(hashedPassword)
bcryptCost(hashedPassword) == costParsed(newFromHash(hashedPassword))

\* ------------------------------------------------------------ package gobcrypt

\* costError with the minimum moved past DefaultCost.
costErrorAboveDefault(cost) ==
  IF cost <= DefaultCost THEN WrapNum("ErrCostTooLow", cost)
  ELSE IF cost > MaxCost THEN WrapNum("ErrCostTooHigh", cost)
  ELSE NoError

\* costError with MaxCost itself refused.
costErrorMaxExclusive(cost) ==
  IF cost < MinCost THEN WrapNum("ErrCostTooLow", cost)
  ELSE IF cost >= MaxCost THEN WrapNum("ErrCostTooHigh", cost)
  ELSE NoError

\* costError with MinCost itself refused.
costErrorMinExclusive(cost) ==
  IF cost <= MinCost THEN WrapNum("ErrCostTooLow", cost)
  ELSE IF cost > MaxCost THEN WrapNum("ErrCostTooHigh", cost)
  ELSE NoError

\* The cost policy of Generate: the error of a cost outside
\* [MinCost, MaxCost], NoError inside.
costError(cost) ==
  IF cost < MinCost THEN WrapNum("ErrCostTooLow", cost)
  ELSE IF cost > MaxCost THEN WrapNum("ErrCostTooHigh", cost)
  ELSE NoError

\* generateInput without the pre-hash: every password goes on as it is.
generateInputNever(password) == password

\* generateInput with every password pre-hashed, short ones too.
generateInputAlways(password) == Prehash(password)

\* generateInput with the threshold one byte early.
generateInputAtLimit(password) ==
  IF Len(password) >= PasswordLimit THEN Prehash(password) ELSE password

\* The bytes Generate hands to the primitive for a password.
generateInput(password) ==
  IF Len(password) > PasswordLimit THEN Prehash(password) ELSE password

\* compareInput with every password pre-hashed, short ones too.
compareInputAlways(password) == Prehash(password)

\* compareInput trying the encoding of the earlier releases.
compareInputLegacy(password) == PreHashPasswordLegacy(password)

\* compareInput with the threshold one byte early.
compareInputAtLimit(password) ==
  IF Len(password) >= PasswordLimit THEN Prehash(password) ELSE password

\* The bytes Compare hands to the primitive for a password.
compareInput(password) ==
  IF Len(password) > PasswordLimit THEN Prehash(password) ELSE password

\* What a call did besides returning is kept with its result: the steps it
\* ran, in order, the bytes it handed to the primitive (<<>> when it never
\* called it) and the number of reads it made of the random source.
\* Prehash ran when the bytes that go on are no longer the password.
Ran(password, input) == IF input # password THEN <<"Prehash">> ELSE <<>>

\* generateReturn calling the primitive once more when it failed, to fail
\* again.
generateReturnRetried(r, did, input) ==
  IF r.err # "nil"
    THEN [hash |-> <<>>, err |-> WrapErr("ErrGenerateFailed", r.err),
          steps |-> Append(did, "bcrypt.GenerateFromPassword"), input |-> input,
          drawn |-> r.drawn + 1]
  ELSE [hash |-> r.hash, err |-> NoError, steps |-> did, input |-> input,
        drawn |-> r.drawn]

\* generateReturn rewriting the version tag of the hash to "$2b$".
generateReturnUpgraded(r, did, input) ==
  IF r.err # "nil"
    THEN [hash |-> <<>>, err |-> WrapErr("ErrGenerateFailed", r.err),
          steps |-> did, input |-> input, drawn |-> r.drawn]
  ELSE [hash |-> [r.hash EXCEPT ![3] = 98], err |-> NoError, steps |-> did,
        input |-> input, drawn |-> r.drawn]

\* Generate, lines 44-49: the primitive has returned r.
generateReturn(r, did, input) ==
  IF r.err # "nil"
    THEN [hash |-> <<>>, err |-> WrapErr("ErrGenerateFailed", r.err),
          steps |-> did, input |-> input, drawn |-> r.drawn]
  ELSE [hash |-> r.hash, err |-> NoError, steps |-> did, input |-> input,
        drawn |-> r.drawn]

\* generateChecked with the cost looked at only after the primitive ran.
generateCostAfter(r, did, input, cost) ==
  IF costError(cost) # NoError
    THEN [hash |-> <<>>, err |-> costError(cost), steps |-> did,
          input |-> input, drawn |-> r.drawn]
  ELSE generateReturn(r, did, input)

generateCheckedLate(input, ran, cost, rnd) ==
  generateCostAfter(bcryptGenerateFromPassword(input, cost, rnd),
                    Append(ran, "bcrypt.GenerateFromPassword"), input, cost)

\* Generate, lines 37-49: the password is input by now.
generateChecked(input, ran, cost, rnd) ==
  IF costError(cost) # NoError
    THEN [hash |-> <<>>, err |-> costError(cost), steps |-> ran,
          input |-> <<>>, drawn |-> 0]
  ELSE generateReturn(bcryptGenerateFromPassword(input, cost, rnd),
                      Append(ran, "bcrypt.GenerateFromPassword"), input)

\* generateWith hashing at MinCost whatever cost was asked for.
generateWithMinCost(password, input, cost, rnd) ==
  generateChecked(input, Ran(password, input), MinCost, rnd)

\* func Generate(password []byte, cost int) ([]byte, error), with the
\* random source delivering salt rnd (0: the read fails).
generateWith(password, input, cost, rnd) ==
  generateChecked(input, Ran(password, input), cost, rnd)

Generate(password, cost, rnd) ==
  generateWith(password, generateInput(password), cost, rnd)

\* Compare, lines 74-79: the primitive has returned e.
compareReturn(e, did, input) ==
  IF e # "nil"
    THEN [err |-> WrapErr("ErrCompareFailed", e), steps |-> did, input |-> input]
  ELSE [err |-> NoError, steps |-> did, input |-> input]

\* Compare, lines 70-79: the hash is not empty.
compareNonEmpty(hash, input, ran) ==
  compareReturn(bcryptCompareHashAndPassword(hash, input),
                Append(ran, "bcrypt.CompareHashAndPassword"), input)

compareWith(hash, password, input) ==
  compareNonEmpty(hash, input, Ran(password, input))

\* Compare without its first test: the empty hash goes to the primitive.
CompareUnguarded(hash, password) ==
  compareWith(hash, password, compareInput(password))

\* func Compare(hash, password []byte) error
Compare(hash, password) ==
  IF Len(hash) = 0
    THEN [err |-> Sentinel("ErrHashEmpty"), steps |-> <<>>, input |-> <<>>]
  ELSE compareWith(hash, password, compareInput(password))

\* costReturn handing on the primitive's error as it is.
costReturnUnwrapped(r) ==
  IF r.err # "nil" THEN [cost |-> 0, err |-> Sentinel(r.err)]
  ELSE [cost |-> r.cost, err |-> NoError]

\* Cost, lines 92-95: the primitive has returned r.
costReturn(r) ==
  IF r.err # "nil" THEN [cost |-> 0, err |-> WrapErr("ErrInvalidHash", r.err)]
  ELSE [cost |-> r.cost, err |-> NoError]

\* func Cost(hash []byte) (int, error)
Cost(hash) == costReturn(bcryptCost(hash))

\* needsRehashReturn with a hash at the target cost sent to be redone.
needsRehashReturnInclusive(r, targetCost) ==
  IF r.err # "nil" THEN TRUE ELSE r.cost <= targetCost

\* needsRehashReturn trusting a blob it cannot parse.
needsRehashReturnClosed(r, targetCost) ==
  IF r.err # "nil" THEN FALSE ELSE r.cost < targetCost

\* NeedsRehash, lines 111-114: the primitive has returned r.
needsRehashReturn(r, targetCost) ==
  IF r.err # "nil" THEN TRUE ELSE r.cost < targetCost

\* func NeedsRehash(hash []byte, targetCost int) bool
NeedsRehash(hash, targetCost) == needsRehashReturn(bcryptCost(hash), targetCost)

\* The arguments are slices: the callee shares their bytes with the caller.
\* These are the caller's bytes as each function leaves them. Generate and
\* Compare assign the digest to their own variable password, which leaves
\* the caller's bytes alone; nothing writes through hash.

\* generateArgs had the digest been copied over the caller's password.
generateArgsOverwritten(password, input) ==
  [password |-> [i \in 1..Len(password) |->
                   IF i <= Len(input) THEN input[i] ELSE password[i]]]

generateArgs(password, input) == [password |-> password]

\* compareArgs had the version tag of the hash been rewritten in place.
compareArgsRetagged(hash, password, input) ==
  [hash |-> IF Len(hash) >= 3 THEN [hash EXCEPT ![3] = 98] ELSE hash,
   password |-> password]

compareArgs(hash, password, input) == [hash |-> hash, password |-> password]

costArgs(hash) == [hash |-> hash]

needsRehashArgs(hash) == [hash |-> hash]

\* What the caller stores after passing blob h of the given kind: the
\* stored slice itself was passed for "stored", a copy for the others.
Kept(kind, stored, after) == IF kind = "stored" THEN after ELSE stored

\* func login(password []byte, storedHash []byte) error, with the target
\* cost it asks for. Besides its error it yields whether it asked for a new
\* hash, and the hash its caller is to save (<<>>: none) with the bytes it
\* was made from.
NothingSaved(err, asked) ==
  [err |-> err, asked |-> asked, saved |-> <<>>, input |-> <<>>]

\* login, lines 105-111: Generate has returned g.
loginUpgrade(g) ==
  IF g.err # NoError THEN NothingSaved(g.err, TRUE)
  ELSE [err |-> NoError, asked |-> TRUE, saved |-> g.hash, input |-> g.input]

\* login, lines 94-113: Compare has returned c.
loginCompared(c, password, storedHash, target, rnd) ==
  IF c.err # NoError THEN NothingSaved(c.err, FALSE)
  ELSE IF NeedsRehash(storedHash, target)
    THEN loginUpgrade(Generate(password, target, rnd))
  ELSE NothingSaved(NoError, FALSE)

login(password, storedHash, target, rnd) ==
  loginCompared(Compare(storedHash, password), password, storedHash, target, rnd)

\* ------------------------------------------------------------ callers

\* Credentials: every sequence over Alphabet of at most MaxShort bytes,
\* the credentials of exactly PasswordLimit bytes that share their first
\* PasswordLimit - 1, their extensions by 1..MaxOver bytes, and the
\* digests of those extensions.
ShortCredentials == SeqsOfLen(Alphabet, 0, MaxShort)

AtLimitCredentials == {Repeat(97, PasswordLimit - 1) \o <<b>> : b \in Alphabet}

LongCredentials ==
  {Repeat(97, PasswordLimit) \o t : t \in SeqsOfLen(Alphabet, 1, MaxOver)}

DigestCredentials == {Prehash(p) : p \in LongCredentials}

Credentials ==
  ShortCredentials \cup AtLimitCredentials \cup LongCredentials \cup DigestCredentials

Costs == (MinCost - CostMargin)..(MaxCost + CostMargin)

\* Target costs: any integer is accepted, also a negative one.
Targets ==
  {0 - 1, 0, MinCost - 1, MinCost, MinCost + 1, DefaultCost, MaxCost, MaxCost + 1}

\* The blobs a caller passes: the stored one, and what storage or a
\* foreign writer can make of it.
BlobKinds ==
  {"stored", "empty", "truncated", "prefix", "version", "costfield",
   "costrange", "digest", "garbage"}

\* The kinds the primitive cannot parse.
UnparseableKinds ==
  {"empty", "truncated", "prefix", "version", "costfield", "costrange", "garbage"}

\* "invalid"
Garbage == <<105, 110, 118, 97, 108, 105, 100>>

Blob(kind, h) ==
  IF kind = "stored" THEN h
  ELSE IF kind = "empty" THEN <<>>
  ELSE IF kind = "garbage" THEN Garbage
  ELSE IF kind = "truncated" THEN SubSeq(h, 1, Len(h) \div 2)
  ELSE IF kind = "prefix" THEN [h EXCEPT ![1] = 35]
  ELSE IF kind = "version" THEN [h EXCEPT ![2] = 51]
  ELSE IF kind = "costfield" THEN [h EXCEPT ![5] = 120]
  ELSE IF kind = "costrange" THEN [h EXCEPT ![5] = 48, ![6] = 51]
  ELSE [h EXCEPT ![Len(h)] = IF h[Len(h)] = 46 THEN 47 ELSE 46]

KindsFor(h) == IF h = <<>> THEN {"empty", "garbage"} ELSE BlobKinds

VARIABLES
  storedHash,   \* the blob the caller keeps; <<>> before the first Generate
  storedFor,    \* who made storedHash, and the password, the cost and the
                \* bytes given to the primitive it was made from
  randSource,   \* "healthy", or "failing": reads of rand.Reader return an error
  call,         \* the call in progress and what it returned; op "none" between calls
  procs,        \* concurrent callers: each goroutine's call and where it is in it
  heap          \* the arrays the calls in progress allocated, by cell

vars == <<storedHash, storedFor, randSource, call, procs, heap>>

\* One caller at a time: the variables of the concurrent callers stay put.
conVars == <<procs, heap>>

\* Concurrent callers: the variables of the single caller stay put.
seqVars == <<storedHash, storedFor, randSource, call>>

NoCall ==
  [op |-> "none", password |-> <<>>, cost |-> 0, kind |-> "empty", hash |-> <<>>,
   out |-> <<>>, err |-> NoError, flag |-> FALSE, n |-> 0,
   steps |-> <<>>, input |-> <<>>, drawn |-> 0,
   afterHash |-> <<>>, afterPassword |-> <<>>]

\* The goroutines calling concurrently.
Procs == 1..NProcs

\* A goroutine between calls. In a call: the function and its arguments,
\* the place reached (pc), what the function's variable password is bound
\* to (ref: 0 for the caller's bytes, otherwise the cell of the array it is
\* a slice of), the salt read (rnd) and the results.
Idle ==
  [op |-> "none", password |-> <<>>, cost |-> 0, hash |-> <<>>, pc |-> "idle",
   ref |-> 0, rnd |-> 0, out |-> <<>>, err |-> NoError, flag |-> FALSE, n |-> 0]

NotStored == [by |-> "nobody", password |-> <<>>, cost |-> 0, input |-> <<>>]

Init ==
  /\ storedHash = <<>>
  /\ storedFor = NotStored
  /\ randSource = "healthy"
  /\ call = NoCall
  /\ procs = [self \in Procs |-> Idle]
  /\ heap = [cell \in Procs |-> <<>>]

InitFailing ==
  /\ storedHash = <<>>
  /\ storedFor = NotStored
  /\ randSource = "failing"
  /\ call = NoCall
  /\ procs = [self \in Procs |-> Idle]
  /\ heap = [cell \in Procs |-> <<>>]

RandOutcomes == IF randSource = "healthy" THEN 1..NSalts ELSE 0..NSalts

\* A caller with nothing stored runs Generate and, when it succeeds, stores
\* the hash. Generate reads nothing but its arguments, so the calls tried
\* from here are all the calls there are.
CallGenerate ==
  /\ call.op = "none"
  /\ storedHash = <<>>
  /\ \E password \in Credentials, cost \in Costs, rnd \in RandOutcomes :
       \E r \in {Generate(password, cost, rnd)} :
          /\ call' = [NoCall EXCEPT !.op = "Generate", !.password = password,
                        !.cost = cost, !.out = r.hash, !.err = r.err,
                        !.steps = r.steps, !.input = r.input, !.drawn = r.drawn,
                        !.afterPassword =
                           generateArgs(password, generateInput(password)).password]
          /\ IF r.err = NoError
               THEN /\ storedHash' = r.hash
                    /\ storedFor' = [by |-> "Generate", password |-> password,
                                     cost |-> cost, input |-> r.input]
               ELSE UNCHANGED <<storedHash, storedFor>>
  /\ UNCHANGED randSource
  /\ UNCHANGED conVars

\* Who else writes hashes a caller has stored: a standard bcrypt user, who
\* gives the primitive the password itself, and the earlier releases of
\* this package, which gave it PreHashPasswordLegacy of the password.
Foreigners == {"bcrypt", "legacy"}

ForeignInput(by, password) ==
  IF by = "legacy" THEN PreHashPasswordLegacy(password) ELSE password

\* The costs of foreign hashes: the primitive's default and MinCost.
ForeignCosts == {10, MinCost}

\* A hash is made by calling bcrypt.GenerateFromPassword directly and is
\* stored when the primitive returns one.
CallBcryptGenerate ==
  /\ call.op = "none"
  /\ storedHash = <<>>
  /\ \E by \in Foreigners, password \in Credentials, cost \in ForeignCosts,
        rnd \in RandOutcomes :
       \E input \in {ForeignInput(by, password)} :
         \E r \in {bcryptGenerateFromPassword(input, cost, rnd)} :
           /\ call' = [NoCall EXCEPT !.op = "bcrypt.GenerateFromPassword",
                         !.password = password, !.cost = cost, !.out = r.hash,
                         !.err = Sentinel(r.err), !.input = input,
                         !.drawn = r.drawn]
           /\ IF r.err = "nil"
                THEN /\ storedHash' = r.hash
                     /\ storedFor' = [by |-> by, password |-> password,
                                      cost |-> cost, input |-> input]
                ELSE UNCHANGED <<storedHash, storedFor>>
  /\ UNCHANGED randSource
  /\ UNCHANGED conVars

\* A standard bcrypt verifier: bcrypt.CompareHashAndPassword called
\* directly on the stored hash and a candidate.
CallBcryptCompare ==
  /\ call.op = "none"
  /\ storedHash # <<>>
  /\ \E password \in Credentials :
       call' = [NoCall EXCEPT !.op = "bcrypt.CompareHashAndPassword",
                  !.password = password, !.kind = "stored", !.hash = storedHash,
                  !.input = password,
                  !.err = Sentinel(bcryptCompareHashAndPassword(storedHash, password))]
  /\ UNCHANGED <<storedHash, storedFor, randSource>>
  /\ UNCHANGED conVars

\* A caller runs Compare on a blob and a candidate password.
CallCompare ==
  /\ call.op = "none"
  /\ \E kind \in KindsFor(storedHash), password \in Credentials :
       \E h \in {Blob(kind, storedHash)} :
         \E r \in {Compare(h, password)} :
           \E a \in {compareArgs(h, password, r.input)} :
             /\ call' = [NoCall EXCEPT !.op = "Compare", !.password = password,
                          !.kind = kind, !.hash = h, !.err = r.err,
                          !.steps = r.steps, !.input = r.input,
                          !.afterHash = a.hash, !.afterPassword = a.password]
             /\ storedHash' = Kept(kind, storedHash, a.hash)
  /\ UNCHANGED <<storedFor, randSource>>
  /\ UNCHANGED conVars

\* The target costs of the login flow: the default and the highest.
LoginTargets == {DefaultCost, MaxCost}

\* A user logs in: the stored hash is verified and, when it needs it,
\* replaced by a new one at the target cost.
CallLogin ==
  /\ call.op = "none"
  /\ storedHash # <<>>
  /\ \E password \in Credentials :
      \E c \in {Compare(storedHash, password)} :
       \E target \in LoginTargets, rnd \in RandOutcomes :
        \E r \in {loginCompared(c, password, storedHash, target, rnd)} :
         /\ call' = [NoCall EXCEPT !.op = "login", !.password = password,
                       !.cost = target, !.kind = "stored", !.hash = storedHash,
                       !.out = r.saved, !.err = r.err, !.flag = r.asked]
         /\ IF r.saved # <<>>
              THEN /\ storedHash' = r.saved
                   /\ storedFor' = [by |-> "Generate", password |-> password,
                                    cost |-> target, input |-> r.input]
              ELSE UNCHANGED <<storedHash, storedFor>>
  /\ UNCHANGED randSource
  /\ UNCHANGED conVars

\* A caller runs PreHashPassword or PreHashPasswordLegacy on a password of
\* any length. They read nothing but their argument, so the calls tried
\* with nothing stored are all the calls there are.
CallPreHashPassword ==
  /\ call.op = "none"
  /\ storedHash = <<>>
  /\ \E password \in Credentials :
       \/ call' = [NoCall EXCEPT !.op = "PreHashPassword", !.password = password,
                     !.out = PreHashPassword(password)]
       \/ call' = [NoCall EXCEPT !.op = "PreHashPasswordLegacy",
                     !.password = password,
                     !.out = PreHashPasswordLegacy(password)]
  /\ UNCHANGED <<storedHash, storedFor, randSource>>
  /\ UNCHANGED conVars

\* A caller runs Prehash on a password of any length.
CallPrehash ==
  /\ call.op = "none"
  /\ \E password \in Credentials :
       call' = [NoCall EXCEPT !.op = "Prehash", !.password = password,
                  !.out = Prehash(password)]
  /\ UNCHANGED <<storedHash, storedFor, randSource>>
  /\ UNCHANGED conVars

\* A caller runs Cost on a blob.
CallCost ==
  /\ call.op = "none"
  /\ \E kind \in KindsFor(storedHash) :
       \E h \in {Blob(kind, storedHash)} :
         \E r \in {Cost(h)} :
           /\ call' = [NoCall EXCEPT !.op = "Cost", !.kind = kind, !.hash = h,
                        !.n = r.cost, !.err = r.err,
                        !.afterHash = costArgs(h).hash]
           /\ storedHash' = Kept(kind, storedHash, costArgs(h).hash)
  /\ UNCHANGED <<storedFor, randSource>>
  /\ UNCHANGED conVars

\* A caller runs NeedsRehash on a blob and a target cost.
CallNeedsRehash ==
  /\ call.op = "none"
  /\ \E kind \in KindsFor(storedHash), target \in Targets :
       \E h \in {Blob(kind, storedHash)} :
         /\ call' = [NoCall EXCEPT !.op = "NeedsRehash", !.kind = kind,
                      !.hash = h, !.cost = target,
                      !.flag = NeedsRehash(h, target),
                      !.afterHash = needsRehashArgs(h).hash]
         /\ storedHash' = Kept(kind, storedHash, needsRehashArgs(h).hash)
  /\ UNCHANGED <<storedFor, randSource>>
  /\ UNCHANGED conVars

\* The call returns; nothing of it is kept.
Return ==
  /\ call.op # "none"
  /\ call' = NoCall
  /\ UNCHANGED <<storedHash, storedFor, randSource>>
  /\ UNCHANGED conVars

\* The caller deletes what it stored.
Forget ==
  /\ call.op = "none"
  /\ storedHash # <<>>
  /\ storedHash' = <<>>
  /\ storedFor' = NotStored
  /\ UNCHANGED <<randSource, call>>
  /\ UNCHANGED conVars

Next ==
  \/ CallGenerate
  \/ CallBcryptGenerate
  \/ CallCompare
  \/ CallBcryptCompare
  \/ CallLogin
  \/ CallPrehash
  \/ CallPreHashPassword
  \/ CallCost
  \/ CallNeedsRehash
  \/ Return
  \/ Forget

Spec == Init /\ [][Next]_vars

SpecFailing == InitFailing /\ [][Next]_vars

\* ------------------------------------------------------------ concurrent callers

\* Each goroutine calls with arguments of its own. The passwords: a short
\* one and two long ones with different digests; the hashes: one made from
\* the first long password, and none.
ConPasswords == {<<97>>} \cup {Repeat(97, PasswordLimit) \o <<b>> : b \in Alphabet}

ConHashes == {<<>>, Generate(Repeat(97, PasswordLimit) \o <<97>>, MinCost, 1).hash}

ConCosts == {MinCost - 1, MinCost}

ConTargets == {MinCost}

\* The salts rand.Reader delivers to concurrent calls.
ConSalts == {1, 2}

\* sum := sha256.Sum256(password); return sum[:]. The array sum is a
\* variable of the call, so every call has a cell of its own: the cell of
\* the goroutine making it.
sumCellShared(self) == 1

sumCell(self) == self

\* The bytes the variable password of a call stands for.
Deref(p, mem) == IF p.ref = 0 THEN p.password ELSE mem[p.ref]

\* The bytes the call hands on after its pre-hash test.
conInput(p) ==
  IF p.op = "Generate" THEN generateInput(p.password) ELSE compareInput(p.password)

AfterPrehash(op) == IF op = "Generate" THEN "cost" ELSE "primitive"

\* A goroutine calls one of the four functions.
ConBegin(self) ==
  /\ procs[self].pc = "idle"
  /\ \/ \E password \in ConPasswords, cost \in ConCosts :
          procs' = [procs EXCEPT ![self] =
                      [Idle EXCEPT !.op = "Generate", !.password = password,
                                   !.cost = cost, !.pc = "prehash"]]
     \/ \E hash \in ConHashes, password \in ConPasswords :
          procs' = [procs EXCEPT ![self] =
                      [Idle EXCEPT !.op = "Compare", !.hash = hash,
                                   !.password = password, !.pc = "entry"]]
     \/ \E hash \in ConHashes :
          procs' = [procs EXCEPT ![self] =
                      [Idle EXCEPT !.op = "Cost", !.hash = hash, !.pc = "primitive"]]
     \/ \E hash \in ConHashes, target \in ConTargets :
          procs' = [procs EXCEPT ![self] =
                      [Idle EXCEPT !.op = "NeedsRehash", !.hash = hash,
                                   !.cost = target, !.pc = "primitive"]]
  /\ UNCHANGED <<heap, seqVars>>

\* Compare, lines 65-67.
ConEmptyCheck(self) ==
  /\ procs[self].pc = "entry"
  /\ procs' = [procs EXCEPT ![self] =
                IF Len(procs[self].hash) = 0
                  THEN [@ EXCEPT !.pc = "done", !.err = Sentinel("ErrHashEmpty")]
                ELSE [@ EXCEPT !.pc = "prehash"]]
  /\ UNCHANGED <<heap, seqVars>>

\* Generate, lines 34-36, and Compare, lines 70-72: a long password is
\* replaced, in the call's own variable, by a slice of the digest array.
ConPrehash(self) ==
  /\ procs[self].pc = "prehash"
  /\ IF conInput(procs[self]) # procs[self].password
       THEN /\ heap' = [heap EXCEPT ![sumCell(self)] = conInput(procs[self])]
            /\ procs' = [procs EXCEPT ![self].ref = sumCell(self),
                                      ![self].pc = AfterPrehash(procs[self].op)]
       ELSE /\ procs' = [procs EXCEPT ![self].pc = AfterPrehash(procs[self].op)]
            /\ UNCHANGED heap
  /\ UNCHANGED seqVars

\* Generate, lines 37-42.
ConCostCheck(self) ==
  /\ procs[self].pc = "cost"
  /\ procs' = [procs EXCEPT ![self] =
                IF costError(procs[self].cost) # NoError
                  THEN [@ EXCEPT !.pc = "done", !.err = costError(procs[self].cost)]
                ELSE [@ EXCEPT !.pc = "primitive"]]
  /\ UNCHANGED <<heap, seqVars>>

\* The call of the primitive and what the function makes of its result.
\* bcrypt.GenerateFromPassword reads its salt from rand.Reader, which the
\* goroutines share and which is safe for concurrent use.
ConPrimitive(self) ==
  /\ procs[self].pc = "primitive"
  /\ \E rnd \in ConSalts, input \in {Deref(procs[self], heap)} :
       \/ /\ procs[self].op = "Generate"
          /\ \E r \in {generateReturn(
                          bcryptGenerateFromPassword(input, procs[self].cost, rnd),
                          <<>>, input)} :
               procs' = [procs EXCEPT ![self].pc = "done", ![self].rnd = rnd,
                                      ![self].out = r.hash, ![self].err = r.err]
       \/ /\ procs[self].op = "Compare"
          /\ rnd = 1
          /\ \E r \in {compareReturn(
                          bcryptCompareHashAndPassword(procs[self].hash, input),
                          <<>>, input)} :
               procs' = [procs EXCEPT ![self].pc = "done", ![self].err = r.err]
       \/ /\ procs[self].op = "Cost"
          /\ rnd = 1
          /\ \E r \in {Cost(procs[self].hash)} :
               procs' = [procs EXCEPT ![self].pc = "done", ![self].n = r.cost,
                                      ![self].err = r.err]
       \/ /\ procs[self].op = "NeedsRehash"
          /\ rnd = 1
          /\ procs' = [procs EXCEPT ![self].pc = "done",
                         ![self].flag = NeedsRehash(procs[self].hash, procs[self].cost)]
  /\ UNCHANGED <<heap, seqVars>>

\* The call returns; its digest array is garbage from here on.
ConReturn(self) ==
  /\ procs[self].pc = "done"
  /\ procs' = [procs EXCEPT ![self] = Idle]
  /\ heap' = [heap EXCEPT ![self] = <<>>]
  /\ UNCHANGED seqVars

NextConcurrent ==
  \E self \in Procs :
    \/ ConBegin(self)
    \/ ConEmptyCheck(self)
    \/ ConPrehash(self)
    \/ ConCostCheck(self)
    \/ ConPrimitive(self)
    \/ ConReturn(self)

SpecConcurrent == Init /\ [][NextConcurrent]_vars

\* ------------------------------------------------------------ claims

Has(steps, name) == \E i \in 1..Len(steps) : steps[i] = name

\* The stored hash is one Generate returned.
FromGenerate == storedFor.by = "Generate"

\* A Compare of the stored hash, as stored, has returned.
ComparedStored == call.op = "Compare" /\ call.kind = "stored" /\ FromGenerate

\* Two credentials agree on their first PasswordLimit bytes.
SamePrefix(p, q) ==
  /\ Len(p) >= PasswordLimit
  /\ Len(q) >= PasswordLimit
  /\ SubSeq(p, 1, PasswordLimit) = SubSeq(q, 1, PasswordLimit)

\* C1: round trip. Whenever Compare is given a hash Generate returned for
\* credential p at a cost in [MinCost, MaxCost] together with p itself, it
\* returns nil; p is empty, short, exactly PasswordLimit bytes, or longer.
C1_RoundTrip ==
  (ComparedStored /\ call.password = storedFor.password) => call.err = NoError

C1_Witness ==
  /\ ComparedStored
  /\ call.password = storedFor.password
  /\ Len(call.password) > PasswordLimit
  /\ storedFor.cost = MaxCost
  /\ call.err = NoError

\* C2: whenever Compare is given a hash Generate returned for credential p
\* and a credential q # p, it returns an error.
C2_DistinctCredentialFails ==
  (ComparedStored /\ call.password # storedFor.password) => call.err # NoError

\* The extent of C2's failure: a different credential is accepted only when
\* one of the two is longer than PasswordLimit and the other is its digest.
C2_OnlyTheDigestIsAccepted ==
  (ComparedStored /\ call.password # storedFor.password /\ call.err = NoError)
    => \/ /\ Len(storedFor.password) > PasswordLimit
          /\ call.password = Prehash(storedFor.password)
       \/ /\ Len(call.password) > PasswordLimit
          /\ storedFor.password = Prehash(call.password)

GeneratedInRange ==
  call.op = "Generate" /\ call.cost >= MinCost /\ call.cost <= MaxCost

\* A Generate has returned, and its cost was outside [MinCost, MaxCost].
GeneratedOutOfRange ==
  call.op = "Generate" /\ (call.cost < MinCost \/ call.cost > MaxCost)

\* C4: for every cost in [MinCost, MaxCost], both bounds included, and
\* every credential, Generate returns no error and a hash that is not
\* empty, and Cost of that hash returns exactly that cost and no error.
C4_GenerateThenCost ==
  GeneratedInRange =>
    /\ call.err = NoError
    /\ Len(call.out) > 0
    /\ Cost(call.out) = [cost |-> call.cost, err |-> NoError]

C4_Witness ==
  /\ GeneratedInRange
  /\ call.cost = MaxCost
  /\ Len(call.password) > PasswordLimit
  /\ call.err = NoError
  /\ Cost(call.out).cost = MaxCost

\* C5: for every credential, Generate returns a nil hash and an error that
\* is ErrCostTooLow when the cost is below MinCost, a nil hash and an error
\* that is ErrCostTooHigh when it is above MaxCost, and neither error when
\* the cost is inside [MinCost, MaxCost].
C5_CostRangeErrors ==
  call.op = "Generate" =>
    /\ call.cost < MinCost => (call.out = <<>> /\ call.err.is = "ErrCostTooLow")
    /\ call.cost > MaxCost => (call.out = <<>> /\ call.err.is = "ErrCostTooHigh")
    /\ GeneratedInRange => call.err.is \notin {"ErrCostTooLow", "ErrCostTooHigh"}

C5_Witness ==
  /\ call.op = "Generate"
  /\ call.cost = MaxCost + 1
  /\ Len(call.password) > PasswordLimit
  /\ call.out = <<>>
  /\ call.err = WrapNum("ErrCostTooHigh", MaxCost + 1)

\* C6: a Generate whose cost is out of range ends without having called
\* bcrypt.GenerateFromPassword: the primitive is not among the steps it
\* ran, it was handed no bytes, and the random source was not read.
C6_CostErrorBeforePrimitive ==
  GeneratedOutOfRange =>
    /\ ~Has(call.steps, "bcrypt.GenerateFromPassword")
    /\ call.input = <<>>
    /\ call.drawn = 0

C6_Witness ==
  /\ GeneratedOutOfRange
  /\ call.cost = MinCost - 1
  /\ call.steps = <<"Prehash">>
  /\ call.drawn = 0
  /\ call.err.is = "ErrCostTooLow"

\* C7: Compare of a zero-length hash returns ErrHashEmpty itself, whatever
\* the credential, and has run neither Prehash nor the comparator.
C7_EmptyHashFirst ==
  (call.op = "Compare" /\ Len(call.hash) = 0) =>
    /\ call.err = Sentinel("ErrHashEmpty")
    /\ call.steps = <<>>
    /\ call.input = <<>>

C7_Witness ==
  /\ call.op = "Compare"
  /\ Len(call.hash) = 0
  /\ Len(call.password) > PasswordLimit
  /\ storedHash # <<>>
  /\ call.err = Sentinel("ErrHashEmpty")

\* C8: every error Compare returns for a hash that is not empty is
\* ErrCompareFailed, be the cause a wrong credential, a corrupted or
\* truncated blob or an unsupported version; and it returns nil only on an
\* exact match, the stored blob with the credential it was generated for.
C8_NilOnlyOnExactMatch ==
  (call.op = "Compare" /\ Len(call.hash) > 0) =>
    /\ call.err = NoError \/ call.err.is = "ErrCompareFailed"
    /\ (call.err = NoError /\ FromGenerate) =>
         (call.kind = "stored" /\ call.password = storedFor.password)

\* What C8 leaves standing: the one failure kind, and nil only for the
\* stored blob with the bytes the primitive was given when it was generated.
C8_OneFailureKind ==
  (call.op = "Compare" /\ Len(call.hash) > 0) =>
    /\ call.err = NoError \/ call.err.is = "ErrCompareFailed"
    /\ call.err = NoError => (call.kind = "stored" /\ call.input = storedFor.input)

\* A blob with an unsupported version is refused as ErrCompareFailed.
C8_Witness ==
  /\ call.op = "Compare"
  /\ call.kind = "version"
  /\ call.password = storedFor.password
  /\ call.err.is = "ErrCompareFailed"

\* The error of a Compare of blob kind k with the credential of the call.
ErrorFor(k) == Compare(Blob(k, storedHash), call.password).err

\* C9: a failed Compare on a hash that is not empty returns the same error
\* value, message text included, whatever made it fail: the blobs of every
\* other kind that fail with the same credential fail with that error.
C9_SameErrorForEveryCause ==
  (call.op = "Compare" /\ Len(call.hash) > 0 /\ call.err # NoError) =>
    \A k \in KindsFor(storedHash) \ {"empty"} :
      ErrorFor(k) \in {NoError, call.err}

\* What C9 leaves standing: the errors differ in their text only, never in
\* the sentinel errors.Is matches.
C9_SameSentinelForEveryCause ==
  (call.op = "Compare" /\ Len(call.hash) > 0 /\ call.err # NoError) =>
    \A k \in KindsFor(storedHash) \ {"empty"} :
      ErrorFor(k).is \in {"nil", call.err.is}

\* The bytes the threshold policy sends to the primitive for a credential.
Passed(password) == IF needsPrehash(password) THEN Prehash(password) ELSE password

C11_BelowTargetOnly ==
  (call.op = "NeedsRehash" /\ Cost(call.hash).err = NoError) =>
    /\ call.flag = (Cost(call.hash).cost < call.cost)
    /\ call.kind \in {"stored", "digest"}
    /\ FromGenerate => Cost(call.hash).cost = storedFor.cost

\* The stored hash is asked about at exactly its own cost.
C11_Witness ==
  /\ call.op = "NeedsRehash"
  /\ call.kind = "stored"
  /\ FromGenerate
  /\ call.cost = storedFor.cost
  /\ call.flag = FALSE

\* C12: NeedsRehash fails open. For every blob that cannot be parsed
\* (empty, garbage, cut short, bad prefix or version, cost field out of
\* range or not a number) it is true for every target, and it is true for
\* such a blob exactly when Cost of the same blob returns an error; it
\* returns no error of its own.
C12_FailsOpen ==
  call.op = "NeedsRehash" =>
    /\ call.kind \in UnparseableKinds =>
          (call.flag = TRUE /\ Cost(call.hash).err # NoError)
    /\ Cost(call.hash).err # NoError => call.flag = TRUE
    /\ call.err = NoError

\* A cost field below the primitive's range, asked about a negative target.
C12_Witness ==
  /\ call.op = "NeedsRehash"
  /\ call.kind = "costrange"
  /\ call.cost < 0
  /\ call.flag = TRUE

\* C13: Cost of a blob that cannot be parsed returns 0 and an error that is
\* ErrInvalidHash, never another kind; Cost of a blob that parses returns
\* the cost in it and nil.
C13_CostOrInvalidHash ==
  call.op = "Cost" =>
    /\ call.kind \in UnparseableKinds =>
          (call.n = 0 /\ call.err.is = "ErrInvalidHash")
    /\ call.kind \notin UnparseableKinds =>
          (call.err = NoError /\ call.n = storedFor.cost)
    /\ call.err.is \in {"nil", "ErrInvalidHash"}

\* A cost field that is not a number.
C13_Witness ==
  /\ call.op = "Cost"
  /\ call.kind = "costfield"
  /\ call.n = 0
  /\ call.err = WrapErr("ErrInvalidHash", "strconv.ErrSyntax")

\* A byte slice: every element is a byte.
IsBytes(s) == \A i \in 1..Len(s) : s[i] \in 0..255

\* C14: Prehash returns, for every byte sequence and the empty one too, a
\* slice of exactly Size bytes whatever the length of the input, and the
\* same bytes again for the same input: a direct call returns what the
\* call inside Generate handed to the primitive.
C14_PrehashFixedSize ==
  call.op = "Prehash" =>
    /\ Len(call.out) = Size
    /\ IsBytes(call.out)
    /\ (FromGenerate /\ storedFor.password = call.password
          /\ Len(call.password) > PasswordLimit) => call.out = storedFor.input

\* Prehash of the empty sequence.
C14_Witness ==
  /\ call.op = "Prehash"
  /\ call.password = <<>>
  /\ Len(call.out) = Size

\* Prehash called again on the long password a hash was generated from.
C14_WitnessRepeated ==
  /\ call.op = "Prehash"
  /\ FromGenerate
  /\ storedFor.password = call.password
  /\ Len(call.password) > PasswordLimit
  /\ call.out = storedFor.input

\* A Compare of the stored hash with the password it was made from, the
\* hash having been made by the given writer.
ComparedOwn(by) ==
  /\ call.op = "Compare"
  /\ call.kind = "stored"
  /\ storedFor.by = by
  /\ call.password = storedFor.password

VerifiedStandard == call.op = "bcrypt.CompareHashAndPassword" /\ FromGenerate

Tag2a == <<36, 50, 97, 36>>

Tag2b == <<36, 50, 98, 36>>

GeneratedHash == call.op = "Generate" /\ call.err = NoError

C19_ArgumentsUntouched ==
  /\ call.op \in {"Compare", "Cost", "NeedsRehash"} => call.afterHash = call.hash
  /\ call.op \in {"Compare", "Generate"} => call.afterPassword = call.password
  /\ storedHash # <<>> => Cost(storedHash) = [cost |-> storedFor.cost, err |-> NoError]

\* A Compare that pre-hashed its password has returned.
C19_Witness ==
  /\ ComparedStored
  /\ Has(call.steps, "Prehash")
  /\ call.afterHash = storedHash
  /\ call.afterPassword = call.password
  /\ Cost(storedHash).cost = storedFor.cost

\* What the call of goroutine p returns when it runs alone.
AloneGenerate(r) == [out |-> r.hash, err |-> r.err, flag |-> FALSE, n |-> 0]

AloneCost(r) == [out |-> <<>>, err |-> r.err, flag |-> FALSE, n |-> r.cost]

Alone(p) ==
  IF p.op = "Generate" THEN AloneGenerate(Generate(p.password, p.cost, p.rnd))
  ELSE IF p.op = "Compare"
    THEN [out |-> <<>>, err |-> Compare(p.hash, p.password).err, flag |-> FALSE, n |-> 0]
  ELSE IF p.op = "Cost" THEN AloneCost(Cost(p.hash))
  ELSE [out |-> <<>>, err |-> NoError, flag |-> NeedsRehash(p.hash, p.cost), n |-> 0]

Outcome(p) == [out |-> p.out, err |-> p.err, flag |-> p.flag, n |-> p.n]

\* C20: the functions share no mutable state. Called concurrently with
\* arguments of their own, under every interleaving each call returns what
\* it returns when run alone, whatever calls ran before it or run beside
\* it.
C20_SameAsAlone ==
  \A self \in Procs :
    procs[self].pc = "done" => Outcome(procs[self]) = Alone(procs[self])

\* A Compare of a long password has returned nil while another goroutine,
\* itself past its pre-hash of another long password, is yet to call the
\* primitive.
C20_Witness ==
  \E self \in Procs, other \in Procs :
    /\ self # other
    /\ procs[self].pc = "done"
    /\ procs[self].op = "Compare"
    /\ procs[self].ref # 0
    /\ procs[self].err = NoError
    /\ procs[other].pc \in {"cost", "primitive"}
    /\ procs[other].ref # 0
    /\ procs[other].password # procs[self].password

\* C21: MinCost < DefaultCost <= MaxCost, with MinCost = 12, DefaultCost =
\* 14, MaxCost = 31 and PasswordLimit = 72, and Generate at DefaultCost is
\* never refused by the cost policy.
C21_DefaultCostAccepted ==
  /\ MinCost < DefaultCost /\ DefaultCost <= MaxCost
  /\ MinCost = 12 /\ DefaultCost = 14 /\ MaxCost = 31 /\ PasswordLimit = 72
  /\ (call.op = "Generate" /\ call.cost = DefaultCost) =>
       /\ call.err.is \notin {"ErrCostTooLow", "ErrCostTooHigh"}
       /\ Has(call.steps, "bcrypt.GenerateFromPassword")

C21_Witness ==
  /\ call.op = "Generate"
  /\ call.cost = DefaultCost
  /\ Len(call.password) = PasswordLimit
  /\ call.err = NoError

\* How many times a call ran the named step.
Times(steps, name) == Cardinality({i \in 1..Len(steps) : steps[i] = name})

\* C22: when the primitive returns an error to a Generate whose cost is
\* inside [MinCost, MaxCost], Generate returns a nil hash and an error that
\* is ErrGenerateFailed, not a cost error, and has called the primitive
\* once; no Generate and no Compare calls the primitive more than once.
C22_GenerateFailedNoRetry ==
  /\ (GeneratedInRange /\ call.err # NoError) =>
       /\ call.out = <<>>
       /\ call.err.is = "ErrGenerateFailed"
       /\ call.err.cause # ""
       /\ Times(call.steps, "bcrypt.GenerateFromPassword") = 1
       /\ call.drawn = 1
  /\ call.op = "Generate" =>
       Times(call.steps, "bcrypt.GenerateFromPassword") <= 1 /\ call.drawn <= 1
  /\ call.op = "Compare" =>
       Times(call.steps, "bcrypt.CompareHashAndPassword") <= 1

\* The random source failed a Generate of a long password at MaxCost.
C22_Witness ==
  /\ GeneratedInRange
  /\ call.cost = MaxCost
  /\ Len(call.password) > PasswordLimit
  /\ call.out = <<>>
  /\ call.err = WrapErr("ErrGenerateFailed", "rand.Reader")

\* Generate or Compare has called the primitive.
CalledPrimitive ==
  \/ call.op = "Generate" /\ Has(call.steps, "bcrypt.GenerateFromPassword")
  \/ call.op = "Compare" /\ Has(call.steps, "bcrypt.CompareHashAndPassword")

LoggedIn ==
  call.op = "login" /\ call.cost >= MinCost /\ call.cost <= MaxCost

\* C24: the upgrade flow converges. When the stored hash verifies the
\* credential and NeedsRehash is true of it for a target inside [MinCost,
\* MaxCost], Generate at the target succeeds, the new hash verifies the
\* credential and NeedsRehash is false of it for the same target; after a
\* login that succeeded the stored hash needs no rehash for that target, so
\* the next login with it generates nothing.
C24_UpgradeConverges ==
  /\ (LoggedIn /\ call.flag) =>
       /\ Compare(call.hash, call.password).err = NoError
       /\ NeedsRehash(call.hash, call.cost)
       /\ call.err = NoError
       /\ call.out # <<>>
       /\ storedHash = call.out
       /\ Compare(call.out, call.password).err = NoError
       /\ ~NeedsRehash(call.out, call.cost)
  /\ (LoggedIn /\ call.err = NoError) =>
       /\ ~NeedsRehash(storedHash, call.cost)
       /\ ~login(call.password, storedHash, call.cost, 1).asked

\* A hash of lower cost was replaced at MaxCost for a long password.
C24_Witness ==
  /\ LoggedIn
  /\ call.flag
  /\ call.cost = MaxCost
  /\ Len(call.password) > PasswordLimit
  /\ Cost(call.hash).cost < MaxCost
  /\ Cost(storedHash).cost = MaxCost
  /\ call.err = NoError

\* A byte of the standard base64 alphabet.
IsStd64(b) ==
  \/ b >= 65 /\ b <= 90
  \/ b >= 97 /\ b <= 122
  \/ b >= 48 /\ b <= 57
  \/ b = 43
  \/ b = 47

\* C25: PreHashPassword returns, for every input and the empty one too,
\* exactly 44 bytes, the padded standard base64 of the digest, and
\* PreHashPasswordLegacy exactly 43 bytes, the unpadded one; both are below
\* PasswordLimit, and the legacy output is the first 43 bytes of the
\* PreHashPassword output for the same input.
C25_EncodedLengths ==
  /\ call.op = "PreHashPassword" =>
       /\ Len(call.out) = 44
       /\ Len(call.out) < PasswordLimit
       /\ \A i \in 1..43 : IsStd64(call.out[i])
       /\ call.out[44] = StdPadding
       /\ call.out = StdEncode(Prehash(call.password))
  /\ call.op = "PreHashPasswordLegacy" =>
       /\ Len(call.out) = 43
       /\ Len(call.out) < PasswordLimit
       /\ \A i \in 1..43 : IsStd64(call.out[i])
       /\ call.out = SubSeq(PreHashPassword(call.password), 1, 43)

\* PreHashPassword of the empty input.
C25_Witness ==
  /\ call.op = "PreHashPassword"
  /\ call.password = <<>>
  /\ Len(call.out) = 44
  /\ call.out[44] = StdPadding

====
